---- MODULE Spec2Model ----
(***************************************************************************)
(* Model of the request protocol of twitch-api.rs: the builder-shaped      *)
(* request values (src/auth/mod.rs, src/resource/*.rs), the generic        *)
(* Request::make_request pipeline and the error classification             *)
(* (src/requests.rs).                                                      *)
(***************************************************************************)
EXTENDS Integers, Sequences, FiniteSets, TLC

VARIABLES
    req,      \* the request value (builder state) of one of the four request types
    pc,       \* position of the make_request future: "idle", "sending", "reading", "done"
    treq,     \* the reqwest RequestBuilder built by the call in progress
    resp,     \* the response body delivered by the transport to the call in progress
    result,   \* what the call in progress returns to its caller
    trace,    \* the pipeline steps executed by the call in progress
    sends,    \* number of times the transport's send has been invoked
    scope_set,  \* a ScopeSet owned by the caller
    iters,      \* the iterators borrowed from scope_set
    wire,       \* a list of wire strings (Option)
    collected,  \* the ScopeSet collected from `wire` (Option)
    tasks,      \* the spawned tasks: each one's request and make_request future
    token,      \* the ClientAuthToken behind the Arc the spawned tasks share
    net,        \* the shared transport client: its answer to each task's send
    client,     \* the Client value the caller of client_auth holds
    auth_call   \* the client_auth future: its arguments, position and locals

RequestVars == <<req, pc, treq, resp, result, trace, sends>>
ScopeVars == <<scope_set, iters, wire, collected>>
TaskVars == <<tasks, token, net>>
ClientVars == <<client, auth_call>>
vars == <<req, pc, treq, resp, result, trace, sends, scope_set, iters, wire, collected,
          tasks, token, net, client, auth_call>>

----------------------------------------------------------------------------
(* Bounds of the model *)

MaxLen == 2
MaxSends == 2
\* most scopes held by scope_set at a time
MaxHeld == 2
\* longest list of wire strings handed to from_iter
MaxStrs == 2
\* number of tasks spawned
MaxTasks == 2

(* Program constants *)

MaxTerms == 100
MaxClipIds == 100
U16Max == 65535

----------------------------------------------------------------------------
(* Option<T> is a sequence of length 0 (None) or 1 (Some(v)) *)

None == <<>>
Some(v) == <<v>>
is_none(o) == o = <<>>
is_some(o) == o # <<>>

Fill(n, v) == [i \in 1..n |-> v]

----------------------------------------------------------------------------
(* Scopes: the Scope enum, its wire strings and the ScopeSet bit set *)

\* enum Scope, #[repr(usize)], in declaration order: the variant at position
\* i has the discriminant i - 1
ScopeOrder ==
    << "AnalyticsReadExtensions", "AnalyticsReadGames", "BitsRead",
       "ChannelEditCommerial", "ChannelManageBroadcast", "ChannelManageExtensions",
       "ChannelManageRedemptions", "ChannelManageVideos", "ChannelReadEditors",
       "ChannelReadHypeTrain", "ChannelReadRedemptions", "ChannelReadStreamKey",
       "ChannelReadSubscriptions", "ClipsEdit", "ModerationRead", "UserEdit",
       "UserEditFollows", "UserReadBroadcast", "UserReadEmail", "UserReadBlockedUsers",
       "UserManageBlockedUsers", "ChannelModerate", "ChannelEdit", "ChatRead",
       "WhispersRead", "WhispersEdit" >>

Scope == {ScopeOrder[i] : i \in 1..Len(ScopeOrder)}

\* the discriminants, counted up from `AnalyticsReadExtensions = 0`
Discriminant == [s \in Scope |-> (CHOOSE i \in 1..Len(ScopeOrder) : ScopeOrder[i] = s) - 1]

\* `scope as usize`
as_usize(scope) == Discriminant[scope]

\* Scope::max()
Scope_max == 26

\* a variant of transmute that counts the variants down from the last one
transmute_descending(n) == ScopeOrder[Scope_max - n]

\* std::mem::transmute(cursor), for a cursor below Scope::max()
transmute(n) == ScopeOrder[n + 1]

\* usize::BITS, the width of BitArray<Lsb0, usize>
BitWidth == 64

\* a variant of as_twitch_str that gives the variant's name
as_twitch_str_name(scope) == scope

as_twitch_str(scope) ==
    CASE scope = "AnalyticsReadExtensions" -> "analytics:read:extensions"
      [] scope = "AnalyticsReadGames" -> "analytics:read:games"
      [] scope = "BitsRead" -> "bits:read"
      [] scope = "ChannelEditCommerial" -> "channel:edit:commercial"
      [] scope = "ChannelManageBroadcast" -> "channel:manage:broadcast"
      [] scope = "ChannelManageExtensions" -> "channel:manage:extensions"
      [] scope = "ChannelManageRedemptions" -> "channel:manage:redemptions"
      [] scope = "ChannelManageVideos" -> "channel:manage:videos"
      [] scope = "ChannelReadEditors" -> "channel:read:editors"
      [] scope = "ChannelReadHypeTrain" -> "channel:read:hype_train"
      [] scope = "ChannelReadRedemptions" -> "channel:read:redemptions"
      [] scope = "ChannelReadStreamKey" -> "channel:read:stream_key"
      [] scope = "ChannelReadSubscriptions" -> "channel:read:subscriptions"
      [] scope = "ClipsEdit" -> "clips:edit"
      [] scope = "ModerationRead" -> "moderation:read"
      [] scope = "UserEdit" -> "user:edit"
      [] scope = "UserEditFollows" -> "user:edit:follows"
      [] scope = "UserReadBroadcast" -> "user:read:broadcast"
      [] scope = "UserReadEmail" -> "user:read:email"
      [] scope = "UserReadBlockedUsers" -> "user:read:blocked_users"
      [] scope = "UserManageBlockedUsers" -> "user:mange:blocked_users"
      [] scope = "ChannelModerate" -> "channel:moderate"
      [] scope = "ChannelEdit" -> "chat:edit"
      [] scope = "ChatRead" -> "chat:read"
      [] scope = "WhispersRead" -> "whispers:read"
      [] scope = "WhispersEdit" -> "whispers:edit"

from_twitch_str(ts) ==
    CASE ts = "analytics:read:extensions" -> Some("AnalyticsReadExtensions")
      [] ts = "analytics:read:games" -> Some("AnalyticsReadGames")
      [] ts = "bits:read" -> Some("BitsRead")
      [] ts = "channel:edit:commercial" -> Some("ChannelEditCommerial")
      [] ts = "channel:manage:broadcast" -> Some("ChannelManageBroadcast")
      [] ts = "channel:manage:extensions" -> Some("ChannelManageExtensions")
      [] ts = "channel:manage:redemptions" -> Some("ChannelManageRedemptions")
      [] ts = "channel:manage:videos" -> Some("ChannelManageVideos")
      [] ts = "channel:read:editors" -> Some("ChannelReadEditors")
      [] ts = "channel:read:hype_train" -> Some("ChannelReadHypeTrain")
      [] ts = "channel:read:redemptions" -> Some("ChannelReadRedemptions")
      [] ts = "channel:read:stream_key" -> Some("ChannelReadStreamKey")
      [] ts = "channel:read:subscriptions" -> Some("ChannelReadSubscriptions")
      [] ts = "clips:edit" -> Some("ClipsEdit")
      [] ts = "moderation:read" -> Some("ModerationRead")
      [] ts = "user:edit" -> Some("UserEdit")
      [] ts = "user:edit:follows" -> Some("UserEditFollows")
      [] ts = "user:read:broadcast" -> Some("UserReadBroadcast")
      [] ts = "user:read:email" -> Some("UserReadEmail")
      [] ts = "user:read:blocked_users" -> Some("UserReadBlockedUsers")
      [] ts = "user:mange:blocked_users" -> Some("UserManageBlockedUsers")
      [] ts = "channel:moderate" -> Some("ChannelModerate")
      [] ts = "chat:edit" -> Some("ChannelEdit")
      [] ts = "chat:read" -> Some("ChatRead")
      [] ts = "whispers:read" -> Some("WhispersRead")
      [] ts = "whispers:edit" -> Some("WhispersEdit")
      [] OTHER -> None

\* BitArray::zeroed()
ScopeSet_new == [scopes |-> [i \in 0..(BitWidth - 1) |-> FALSE]]

\* BitArray::get: None past the width
BitArray_get(bits, index) == IF index < BitWidth THEN Some(bits[index]) ELSE None

\* BitArray::set
BitArray_set(bits, index, value) == [bits EXCEPT ![index] = value]

\* ScopeSet::contains: the expect() is reached with Some for every Scope
contains(set, scope) == BitArray_get(set.scopes, as_usize(scope))[1]

\* a variant of insert that flips the bit
insert_toggle(set, scope) ==
    [set EXCEPT !.scopes = BitArray_set(@, as_usize(scope), ~@[as_usize(scope)])]

insert(set, scope) == [set EXCEPT !.scopes = BitArray_set(@, as_usize(scope), TRUE)]

\* a variant of remove that clears the whole bit array
remove_all(set, scope) == [set EXCEPT !.scopes = [i \in 0..(BitWidth - 1) |-> FALSE]]

remove(set, scope) == [set EXCEPT !.scopes = BitArray_set(@, as_usize(scope), FALSE)]

\* ScopeIter { cursor: 0, set: &self }, bare (scope_iter) or wrapped in
\* SpecIter (spec_iter); `out` collects what next() has returned so far and
\* `ended` tells that the last next() returned None
ScopeIter(spec) == [live |-> TRUE, spec |-> spec, cursor |-> 0, out |-> <<>>, ended |-> FALSE]
NoIter == [live |-> FALSE, spec |-> FALSE, cursor |-> 0, out |-> <<>>, ended |-> FALSE]

\* ScopeIter::next: the while loop, returning the new cursor and the item
RECURSIVE ScopeIter_next(_, _)
ScopeIter_next(cursor, set) ==
    IF cursor < Scope_max
    THEN IF contains(set, transmute(cursor))
         THEN [cursor |-> cursor + 1, item |-> Some(transmute(cursor))]
         ELSE ScopeIter_next(cursor + 1, set)
    ELSE [cursor |-> cursor, item |-> None]

\* a variant of SpecIter::next that yields the variant's name (its Debug form)
SpecIter_next_debug(cursor, set) == ScopeIter_next(cursor, set)

\* SpecIter::next
SpecIter_next(cursor, set) ==
    LET n == ScopeIter_next(cursor, set)
    IN  [cursor |-> n.cursor,
         item |-> IF is_some(n.item) THEN Some(as_twitch_str(n.item[1])) ELSE None]

\* set.spec_iter().collect::<Vec<_>>(): next() until None
RECURSIVE SpecIter_drain(_, _)
SpecIter_drain(cursor, set) ==
    LET n == SpecIter_next(cursor, set)
    IN  IF is_some(n.item) THEN <<n.item[1]>> \o SpecIter_drain(n.cursor, set) ELSE <<>>

spec_iter_collect(set) == SpecIter_drain(0, set)

\* FromIterator<&str> for ScopeSet: the for loop over the strings
RECURSIVE from_iter_loop(_, _)
from_iter_loop(set, iter) ==
    IF iter = <<>> THEN set
    ELSE LET maybe_scope == from_twitch_str(Head(iter))
         IN  from_iter_loop(IF is_some(maybe_scope)
                            THEN insert(set, maybe_scope[1])
                            ELSE set,
                            Tail(iter))

\* a variant of from_iter that stops at the first string it does not know
from_iter_until_unknown(iter) ==
    LET bad == {k \in 1..Len(iter) : is_none(from_twitch_str(iter[k]))}
        n == IF bad = {} THEN Len(iter)
             ELSE (CHOOSE k \in bad : \A l \in bad : k <= l) - 1
    IN  from_iter_loop(ScopeSet_new, SubSeq(iter, 1, n))

from_iter(iter) == from_iter_loop(ScopeSet_new, iter)

----------------------------------------------------------------------------
(* Input values *)

RequestTypes == {"ClientAuthRequest", "GetUsersRequest", "GetClipsRequest",
                 "GetChannelInformationRequest"}

ClientAuthToken == [scopes |-> ScopeSet_new, token |-> "tok1", client_id |-> "cid1"]
Tokens == {ClientAuthToken}

UserIds == {"u1"}
UserNames == {"l1"}
ClipIds == {"c1"}
BroadcasterIds == {"b1"}
GameIds == {"g1"}
Cursors == {"cur1"}
Counts == {50}
Times == {"t1", "t2"}
ClientIds == {"cid1"}
ClientSecrets == {"sec1"}

\* Lists handed to set_ids / set_logins / set_clip_ids: every short list, and
\* lists around the limit of 100 terms.
ShortLists(S) == UNION {[1..n -> S] : n \in 0..MaxLen}
LimitLists(S, limit) == {Fill(n, CHOOSE v \in S : TRUE) : n \in {limit - 1, limit, limit + 1}}
InputLists(S, limit) == ShortLists(S) \cup LimitLists(S, limit)

\* push is taken on short lists and on lists next to the limit
CanGrow(list, limit) == Len(list) < MaxLen \/ Len(list) \in {limit - 1, limit}

----------------------------------------------------------------------------
(* The request values and their builder() states *)

Unset == [kind |-> "Unset", val |-> <<>>]
BroadCasterId(id) == [kind |-> "BroadCasterId", val |-> <<id>>]
GameId(id) == [kind |-> "GameId", val |-> <<id>>]
ClipId(ids) == [kind |-> "ClipId", val |-> ids]

PaginationNone == [dir |-> "None", cursor |-> None]
PaginationBefore(pag) == [dir |-> "Before", cursor |-> pag.cursor]
PaginationAfter(pag) == [dir |-> "After", cursor |-> pag.cursor]
Paginations == {[cursor |-> None]} \cup {[cursor |-> Some(c)] : c \in Cursors}

builder(ty) ==
    CASE ty = "ClientAuthRequest" ->
           [ty |-> ty, client_id |-> None, client_secret |-> None, scopes |-> <<>>]
      [] ty = "GetUsersRequest" ->
           [ty |-> ty, auth |-> None, id |-> <<>>, login |-> <<>>]
      [] ty = "GetClipsRequest" ->
           [ty |-> ty, auth |-> None, query_type |-> Unset,
            pagination |-> PaginationNone, count |-> None, period |-> None]
      [] ty = "GetChannelInformationRequest" ->
           [ty |-> ty, auth |-> None, broadcaster_id |-> None]

ENDPOINT(ty) ==
    CASE ty = "ClientAuthRequest" -> "https://id.twitch.tv/oauth2/token"
      [] ty = "GetUsersRequest" -> "https://api.twitch.tv/helix/users"
      [] ty = "GetClipsRequest" -> "https://api.twitch.tv/helix/clips"
      [] ty = "GetChannelInformationRequest" -> "https://api.twitch.tv/helix/channels"

METHOD(ty) == IF ty = "ClientAuthRequest" THEN "POST" ELSE "GET"

----------------------------------------------------------------------------
(* ready(): the readiness predicate of each request type *)

ReadyOk == [kind |-> "Ok"]
MalformedRequest(msg) == [kind |-> "MalformedRequest", msg |-> msg]
MissingAuth == [kind |-> "MissingAuth"]

\* a variant of ClientAuthRequest_ready that looks at client_secret first
ClientAuthRequest_ready_secret_first(r) ==
    IF is_none(r.client_secret) THEN MalformedRequest("field client_secret must be set")
    ELSE IF is_none(r.client_id) THEN MalformedRequest("field client_id must be set")
    ELSE ReadyOk

ClientAuthRequest_ready(r) ==
    IF is_none(r.client_id) THEN MalformedRequest("field client_id must be set")
    ELSE IF is_none(r.client_secret) THEN MalformedRequest("field client_secret must be set")
    ELSE ReadyOk

\* a variant of GetUsersRequest_ready that rejects the 100th term
GetUsersRequest_ready_exclusive(r) ==
    IF is_none(r.auth) THEN MissingAuth
    ELSE IF Len(r.id) = 0 /\ Len(r.login) = 0
         THEN MalformedRequest("At least one id or login must be provided")
    ELSE IF Len(r.id) + Len(r.login) >= MaxTerms
         THEN MalformedRequest("You cannot make a get users request with more than 100 cumulative search terms")
    ELSE ReadyOk

GetUsersRequest_ready(r) ==
    IF is_none(r.auth) THEN MissingAuth
    ELSE IF Len(r.id) = 0 /\ Len(r.login) = 0
         THEN MalformedRequest("At least one id or login must be provided")
    ELSE IF Len(r.id) + Len(r.login) > MaxTerms
         THEN MalformedRequest("You cannot make a get users request with more than 100 cumulative search terms")
    ELSE ReadyOk

\* a variant of GetClipsRequest_ready without the QueryType::Unset arm
GetClipsRequest_ready_any_query(r) ==
    IF is_none(r.auth) THEN MissingAuth
    ELSE IF r.query_type.kind = "ClipId"
         THEN IF Len(r.query_type.val) = 0
              THEN MalformedRequest("Must provide at least one of broadcaster_id, game_id, clip_id")
              ELSE IF Len(r.query_type.val) > MaxClipIds
                   THEN MalformedRequest("Cannot send more than 100 clip_ids at a time")
                   ELSE ReadyOk
    ELSE ReadyOk

GetClipsRequest_ready(r) ==
    IF is_none(r.auth) THEN MissingAuth
    ELSE IF r.query_type.kind = "Unset"
         THEN MalformedRequest("Must provide at least one of broadcaster_id, game_id, clip_id")
    ELSE IF r.query_type.kind = "ClipId"
         THEN IF Len(r.query_type.val) = 0
              THEN MalformedRequest("Must provide at least one of broadcaster_id, game_id, clip_id")
              ELSE IF Len(r.query_type.val) > MaxClipIds
                   THEN MalformedRequest("Cannot send more than 100 clip_ids at a time")
                   ELSE ReadyOk
    ELSE ReadyOk

\* a variant of GetChannelInformationRequest_ready that does not look at auth
GetChannelInformationRequest_ready_no_auth(r) ==
    IF is_none(r.broadcaster_id) THEN MalformedRequest("You must provide a broadcaster_id")
    ELSE ReadyOk

GetChannelInformationRequest_ready(r) ==
    IF is_none(r.auth) THEN MissingAuth
    ELSE IF is_none(r.broadcaster_id) THEN MalformedRequest("You must provide a broadcaster_id")
    ELSE ReadyOk

ready(r) ==
    CASE r.ty = "ClientAuthRequest" -> ClientAuthRequest_ready(r)
      [] r.ty = "GetUsersRequest" -> GetUsersRequest_ready(r)
      [] r.ty = "GetClipsRequest" -> GetClipsRequest_ready(r)
      [] r.ty = "GetChannelInformationRequest" -> GetChannelInformationRequest_ready(r)

----------------------------------------------------------------------------
(* headers(), parameters(), body() and the write-onto-request operations.   *)
(* An accessor that unwraps a missing field panics: [panic |-> TRUE].       *)

Unit == <<>>

headers(r) ==
    IF r.ty = "ClientAuthRequest" THEN [panic |-> FALSE, val |-> Unit]
    ELSE IF is_none(r.auth) THEN [panic |-> TRUE, val |-> Unit]
    ELSE [panic |-> FALSE, val |-> r.auth]

body(r) == [panic |-> FALSE, val |-> Unit]

\* impl Serialize for ClientAuthRequestParams
ClientAuthRequestParams_serialize(r) ==
    IF is_none(r.client_id) \/ is_none(r.client_secret)
    THEN [panic |-> TRUE, pairs |-> <<>>]
    ELSE [panic |-> FALSE,
          pairs |-> << <<"client_id", r.client_id[1]>>,
                       <<"client_secret", r.client_secret[1]>>,
                       <<"grant_type", "client_credentials">> >>]

\* impl Serialize for GetUsersRequest
GetUsersRequest_serialize(r) ==
    [panic |-> FALSE,
     pairs |-> [i \in 1..Len(r.id) |-> <<"id", r.id[i]>>]
               \o [i \in 1..Len(r.login) |-> <<"login", r.login[i]>>]]

\* impl Serialize for GetClipsRequest
GetClipsRequest_serialize(r) ==
    LET q == r.query_type
        required ==
            CASE q.kind = "GameId" -> << <<"game_id", q.val[1]>> >>
              [] q.kind = "BroadCasterId" -> << <<"broadcaster_id", q.val[1]>> >>
              [] q.kind = "ClipId" -> [i \in 1..Len(q.val) |-> <<"id", q.val[i]>>]
              [] OTHER -> <<>>
        pag ==
            IF r.pagination.dir = "Before" /\ is_some(r.pagination.cursor)
            THEN << <<"before", r.pagination.cursor[1]>> >>
            ELSE IF r.pagination.dir = "After" /\ is_some(r.pagination.cursor)
            THEN << <<"after", r.pagination.cursor[1]>> >>
            ELSE <<>>
        first == IF is_some(r.count) THEN << <<"first", r.count[1]>> >> ELSE <<>>
        period ==
            IF is_some(r.period)
            THEN << <<"started_ad", r.period[1].start>> >>
                 \o (IF is_some(r.period[1].end)
                     THEN << <<"ended_at", r.period[1].end[1]>> >> ELSE <<>>)
            ELSE <<>>
    IN  IF q.kind = "Unset" THEN [panic |-> TRUE, pairs |-> <<>>]
        ELSE [panic |-> FALSE, pairs |-> required \o pag \o first \o period]

\* #[derive(Serialize)] on GetChannelInformationRequest, auth skipped
GetChannelInformationRequest_serialize(r) ==
    [panic |-> FALSE,
     pairs |-> IF is_some(r.broadcaster_id)
               THEN << <<"broadcaster_id", r.broadcaster_id[1]>> >> ELSE <<>>]

parameters(r) ==
    CASE r.ty = "ClientAuthRequest" -> ClientAuthRequestParams_serialize(r)
      [] r.ty = "GetUsersRequest" -> GetUsersRequest_serialize(r)
      [] r.ty = "GetClipsRequest" -> GetClipsRequest_serialize(r)
      [] r.ty = "GetChannelInformationRequest" -> GetChannelInformationRequest_serialize(r)

\* client.request(Self::METHOD, Self::ENDPOINT)
client_request(method, url) ==
    [method |-> method, url |-> url, headers |-> <<>>, query |-> <<>>,
     body |-> None, ops |-> <<"request">>]

NoRequest == [method |-> "", url |-> "", headers |-> <<>>, query |-> <<>>,
              body |-> None, ops |-> <<>>]

\* Headers::write_headers for () and for ClientAuthToken (also through Arc / Rc)
write_headers(h, rb) ==
    [rb EXCEPT !.headers = @ \o (IF h = Unit THEN <<>>
                                 ELSE << <<"Authorization", <<"Bearer", h[1].token>> >>,
                                         <<"Client-Id", <<h[1].client_id>> >> >>),
               !.ops = Append(@, "write_headers")]

\* Parameters::write_parameters: req.query(self)
write_parameters(pairs, rb) ==
    [rb EXCEPT !.query = @ \o pairs, !.ops = Append(@, "write_parameters")]

\* Body::write_body for ()
write_body(b, rb) == [rb EXCEPT !.ops = Append(@, "write_body")]

----------------------------------------------------------------------------
(* Response bodies: a body is either not JSON at all, or a JSON object      *)
(* given by the value of each field name (Absent when the object lacks it). *)

Absent == [t |-> "absent", n |-> 0, s |-> "", items |-> <<>>]
JNum(n) == [t |-> "num", n |-> n, s |-> "", items |-> <<>>]
JStr(s) == [t |-> "str", n |-> 0, s |-> s, items |-> <<>>]
JArr(items) == [t |-> "arr", n |-> 0, s |-> "", items |-> items]
JObj(cursor) == [t |-> "obj", n |-> 0, s |-> "", items |-> cursor]

Fields == {"access_token", "expires_in", "data", "pagination", "status", "message"}
EmptyObject == [f \in Fields |-> Absent]
NotJson == [json |-> FALSE, obj |-> EmptyObject]
Json(obj) == [json |-> TRUE, obj |-> obj]

KnownStatuses == {400, 401, 500}
Statuses == KnownStatuses \cup {0, 399, 402, 599, U16Max}
Messages == {"bad", "x"}

\* the element type of the "data" array of each response type
ElemShape(ty) ==
    CASE ty = "GetUsersRequest" -> "UserDescription"
      [] ty = "GetClipsRequest" -> "ClipInfo"
      [] ty = "GetChannelInformationRequest" -> "ChannelInformation"
      [] OTHER -> "none"

AllOf(items, shape) == \A i \in 1..Len(items) : items[i] = shape

\* Deserialize for the Response type of each request: [ok, r]
NoPayload == [ok |-> FALSE, r |-> [none |-> TRUE]]

ClientAuthResponse_deserialize(o) ==
    IF /\ o["access_token"].t = "str"
       /\ o["expires_in"].t = "num"
       /\ o["expires_in"].n >= 0   \* u32; its upper limit 2^32 - 1 is above every integer of the model
    THEN [ok |-> TRUE, r |-> [access_token |-> o["access_token"].s,
                              expires_in |-> o["expires_in"].n]]
    ELSE NoPayload

GetUsersResponse_deserialize(o) ==
    IF o["data"].t = "arr" /\ AllOf(o["data"].items, "UserDescription")
    THEN [ok |-> TRUE, r |-> [users |-> o["data"].items]]
    ELSE NoPayload

GetClipsResponse_deserialize(o) ==
    IF /\ \/ o["data"].t = "absent"
          \/ o["data"].t = "arr" /\ AllOf(o["data"].items, "ClipInfo")
       /\ o["pagination"].t = "obj"
    THEN [ok |-> TRUE, r |-> [clips |-> o["data"].items,
                              pagination |-> [cursor |-> o["pagination"].items]]]
    ELSE NoPayload

GetChannelInformationResponse_deserialize(o) ==
    IF o["data"].t = "arr" /\ AllOf(o["data"].items, "ChannelInformation")
    THEN [ok |-> TRUE, r |-> [channels |-> o["data"].items]]
    ELSE NoPayload

Response_deserialize(ty, o) ==
    CASE ty = "ClientAuthRequest" -> ClientAuthResponse_deserialize(o)
      [] ty = "GetUsersRequest" -> GetUsersResponse_deserialize(o)
      [] ty = "GetClipsRequest" -> GetClipsResponse_deserialize(o)
      [] ty = "GetChannelInformationRequest" -> GetChannelInformationResponse_deserialize(o)

\* Deserialize for FailureStatus<u16>
FailureStatus_deserialize(o) ==
    IF /\ o["status"].t = "num"
       /\ o["status"].n >= 0 /\ o["status"].n <= U16Max
       /\ o["message"].t = "str"
    THEN [ok |-> TRUE, f |-> [status |-> o["status"].n, message |-> o["message"].s]]
    ELSE [ok |-> FALSE, f |-> [status |-> 0, message |-> ""]]

\* a variant of PossibleResponse that tries Failure before Response
PossibleResponse_failure_first(ty, b) ==
    IF ~b.json THEN [variant |-> "Err"]
    ELSE LET asResponse == Response_deserialize(ty, b.obj)
             asFailure == FailureStatus_deserialize(b.obj)
         IN  IF asFailure.ok THEN [variant |-> "Failure", f |-> asFailure.f]
             ELSE IF asResponse.ok THEN [variant |-> "Response", r |-> asResponse.r]
             ELSE [variant |-> "Err"]

\* #[serde(untagged)] enum PossibleResponse<R>: the variants are tried in
\* declaration order, Response(R) first, then Failure(FailureStatus<u16>)
PossibleResponse_deserialize(ty, b) ==
    IF ~b.json THEN [variant |-> "Err"]
    ELSE LET asResponse == Response_deserialize(ty, b.obj)
             asFailure == FailureStatus_deserialize(b.obj)
         IN  IF asResponse.ok THEN [variant |-> "Response", r |-> asResponse.r]
             ELSE IF asFailure.ok THEN [variant |-> "Failure", f |-> asFailure.f]
             ELSE [variant |-> "Err"]

\* PossibleResponse::into_result
into_result(p) ==
    IF p.variant = "Response" THEN [ok |-> TRUE, r |-> p.r]
    ELSE [ok |-> FALSE, f |-> p.f]

\* a variant of from_status without the arm for 500
from_status_no_500(codes) ==
    CASE codes.status = 400 ->
           [ok |-> TRUE, status |-> "BadRequestCode", message |-> codes.message]
      [] codes.status = 401 ->
           [ok |-> TRUE, status |-> "AuthErrorCode", message |-> codes.message]
      [] OTHER -> [ok |-> FALSE, code |-> codes.status, message |-> codes.message]

\* a variant of from_status with one more arm, 403 => AuthErrorCode
from_status_with_403(codes) ==
    CASE codes.status = 400 ->
           [ok |-> TRUE, status |-> "BadRequestCode", message |-> codes.message]
      [] codes.status \in {401, 403} ->
           [ok |-> TRUE, status |-> "AuthErrorCode", message |-> codes.message]
      [] codes.status = 500 ->
           [ok |-> TRUE, status |-> "ServerErrorCode", message |-> codes.message]
      [] OTHER -> [ok |-> FALSE, code |-> codes.status, message |-> codes.message]

\* response_codes!(CommonResponseCodes: [400 => .., 401 => .., 500 => ..])
from_status(codes) ==
    CASE codes.status = 400 ->
           [ok |-> TRUE, status |-> "BadRequestCode", message |-> codes.message]
      [] codes.status = 401 ->
           [ok |-> TRUE, status |-> "AuthErrorCode", message |-> codes.message]
      [] codes.status = 500 ->
           [ok |-> TRUE, status |-> "ServerErrorCode", message |-> codes.message]
      [] OTHER -> [ok |-> FALSE, code |-> codes.status, message |-> codes.message]

\* impl From<FailureStatus<u16>> for RequestError<E>
RequestError_from(failure) ==
    LET c == from_status(failure)
    IN  IF c.ok
        THEN [kind |-> "KnownErrorStatus", status |-> c.status, message |-> c.message]
        ELSE [kind |-> "UnkownErrorStatus", code |-> c.code, message |-> c.message]

ReqwestError(cause) == [kind |-> "ReqwestError", cause |-> cause]
Ok(r) == [kind |-> "Ok", payload |-> r]
Panic == [kind |-> "Panic"]
NotCalled == [kind |-> "NotCalled"]
Pending == [kind |-> "Pending"]

----------------------------------------------------------------------------
(* The bodies the transport may deliver *)

With2(o, f1, v1, f2, v2) == [o EXCEPT ![f1] = v1, ![f2] = v2]

SuccessObjects(ty) ==
    CASE ty = "ClientAuthRequest" ->
           {With2(EmptyObject, "access_token", JStr("tok1"), "expires_in", JNum(3600))}
      [] ty = "GetUsersRequest" ->
           {[EmptyObject EXCEPT !["data"] = JArr(<<>>)],
            [EmptyObject EXCEPT !["data"] = JArr(<<"UserDescription">>)]}
      [] ty = "GetClipsRequest" ->
           {With2(EmptyObject, "data", JArr(<<"ClipInfo">>), "pagination", JObj(None)),
            [EmptyObject EXCEPT !["pagination"] = JObj(Some("cur1"))]}
      [] ty = "GetChannelInformationRequest" ->
           {[EmptyObject EXCEPT !["data"] = JArr(<<"ChannelInformation">>)]}

FailureObjects ==
    {With2(EmptyObject, "status", JNum(s), "message", JStr(m)) :
        s \in Statuses, m \in Messages}

\* objects that carry the success fields and the failure fields together
BothObjects(ty) ==
    {With2(o, "status", JNum(400), "message", JStr("bad")) : o \in SuccessObjects(ty)}

NeitherObjects ==
    {EmptyObject,
     With2(EmptyObject, "status", JNum(U16Max + 1), "message", JStr("x")),
     With2(EmptyObject, "status", JStr("400"), "message", JStr("x")),
     [EmptyObject EXCEPT !["status"] = JNum(400)],
     With2(EmptyObject, "access_token", JStr("tok1"), "expires_in", JNum(-1)),
     [EmptyObject EXCEPT !["data"] = JArr(<<"Malformed">>)]}

Bodies(ty) ==
    {NotJson} \cup {Json(o) : o \in SuccessObjects(ty) \cup FailureObjects
                                    \cup BothObjects(ty) \cup NeitherObjects}

----------------------------------------------------------------------------
(* Request::make_request up to its first suspension point, req.send().await *)

\* a variant of build that writes the parameters before the headers
build_parameters_first(r) ==
    LET h == headers(r)
        p == parameters(r)
        b == body(r)
        rb0 == client_request(METHOD(r.ty), ENDPOINT(r.ty))
        rb1 == write_parameters(p.pairs, rb0)
        rb2 == write_headers(h.val, rb1)
        rb3 == write_body(b.val, rb2)
    IN  IF h.panic \/ p.panic THEN [panic |-> TRUE, rb |-> rb0]
        ELSE [panic |-> FALSE, rb |-> rb3]

\* the transport request: client.request(METHOD, ENDPOINT), then the headers,
\* the parameters and the body written onto it
build(r) ==
    LET h == headers(r)
        p == parameters(r)
        b == body(r)
        rb0 == client_request(METHOD(r.ty), ENDPOINT(r.ty))
        rb1 == write_headers(h.val, rb0)
        rb2 == write_parameters(p.pairs, rb1)
        rb3 == write_body(b.val, rb2)
    IN  IF h.panic THEN [panic |-> TRUE, rb |-> rb0]
        ELSE IF p.panic THEN [panic |-> TRUE, rb |-> rb1]
        ELSE [panic |-> FALSE, rb |-> rb3]

\* self.ready()? ; build ; req.send()
dispatch(rd, bd) ==
    IF rd.kind # "Ok"
    THEN [sent |-> FALSE, ret |-> rd, rb |-> NoRequest, steps |-> <<"ready">>]
    ELSE IF bd.panic
    THEN [sent |-> FALSE, ret |-> Panic, rb |-> bd.rb, steps |-> <<"ready">> \o bd.rb.ops]
    ELSE [sent |-> TRUE, ret |-> Pending, rb |-> bd.rb,
          steps |-> <<"ready">> \o bd.rb.ops \o <<"send">>]

\* a variant of make_request that sends without asking ready()
make_request_unchecked(r) == dispatch(ReadyOk, build(r))

\* a variant of make_request that asks ready() only until the first send
make_request_cached(r) == dispatch(IF sends > 0 THEN ReadyOk ELSE ready(r), build(r))

make_request(r) == dispatch(ready(r), build(r))

\* a variant of read_response that unwraps the parse result
read_response_unwrap(ty, b) ==
    LET parsed == PossibleResponse_deserialize(ty, b)
        res == into_result(parsed)
    IN  IF parsed.variant = "Err"
        THEN [ret |-> Panic, steps |-> <<"json">>]
        ELSE IF res.ok
        THEN [ret |-> Ok(res.r), steps |-> <<"json", "into_result">>]
        ELSE [ret |-> RequestError_from(res.f),
              steps |-> <<"json", "into_result", "from_status">>]

\* resp.json::<PossibleResponse<_>>().await?.into_result().map_err(FailureStatus::into)
read_response(ty, b) ==
    LET parsed == PossibleResponse_deserialize(ty, b)
        res == into_result(parsed)
    IN  IF parsed.variant = "Err"
        THEN [ret |-> ReqwestError("decode"), steps |-> <<"json">>]
        ELSE IF res.ok
        THEN [ret |-> Ok(res.r), steps |-> <<"json", "into_result">>]
        ELSE [ret |-> RequestError_from(res.f),
              steps |-> <<"json", "into_result", "from_status">>]

----------------------------------------------------------------------------
(* Actions *)

\* iterator 1 comes from scope_iter, iterator 2 from spec_iter
IterIds == {1, 2}

\* no scope set is in use: the requests never touch one
NoScopes ==
    /\ scope_set = ScopeSet_new
    /\ iters = [i \in IterIds |-> NoIter]
    /\ wire = None
    /\ collected = None

\* no task is spawned and no client is in use
NoCalls ==
    /\ tasks = <<>>
    /\ token = ClientAuthToken
    /\ net = <<>>
    /\ client = None
    /\ auth_call = None

Init ==
    /\ req \in {builder(ty) : ty \in RequestTypes}
    /\ pc = "idle"
    /\ treq = NoRequest
    /\ resp = None
    /\ result = NotCalled
    /\ trace = <<>>
    /\ sends = 0
    /\ NoScopes
    /\ NoCalls

CallVars == <<pc, treq, resp, result, trace, sends>>

\* a builder method takes &mut self: no make_request future borrows the request
Mutate(ty, r) ==
    /\ pc = "idle"
    /\ req.ty = ty
    /\ req' = r
    /\ UNCHANGED CallVars
    /\ UNCHANGED <<ScopeVars, TaskVars, ClientVars>>

\* make_request is called and runs to req.send().await, or returns early
MakeRequest ==
    /\ pc = "idle"
    /\ sends < MaxSends
    /\ LET m == make_request(req)
       IN  /\ trace' = m.steps
           /\ treq' = m.rb
           /\ result' = m.ret
           /\ pc' = IF m.sent THEN "sending" ELSE "done"
           /\ sends' = IF m.sent THEN sends + 1 ELSE sends
    /\ UNCHANGED <<req, resp>>
    /\ UNCHANGED <<ScopeVars, TaskVars, ClientVars>>

\* a variant of SendFails that sends the built request again after a failure
SendFails_retry ==
    /\ pc = "sending"
    /\ pc' = "sending"
    /\ sends' = sends + 1
    /\ trace' = Append(trace, "send")
    /\ UNCHANGED <<req, treq, resp, result>>
    /\ UNCHANGED <<ScopeVars, TaskVars, ClientVars>>

\* a variant of SendFails that converts the error through From<Box<dyn Error>>
SendFails_boxed ==
    /\ pc = "sending"
    /\ pc' = "done"
    /\ result' = [kind |-> "UnknownError"]
    /\ UNCHANGED <<req, treq, resp, trace, sends>>
    /\ UNCHANGED <<ScopeVars, TaskVars, ClientVars>>

\* req.send().await fails: the `?` returns the reqwest::Error
SendFails ==
    /\ pc = "sending"
    /\ pc' = "done"
    /\ result' = ReqwestError("send")
    /\ UNCHANGED <<req, treq, resp, trace, sends>>
    /\ UNCHANGED <<ScopeVars, TaskVars, ClientVars>>

\* req.send().await yields a response
SendCompletes ==
    /\ pc = "sending"
    /\ \E b \in Bodies(req.ty) : resp' = Some(b)
    /\ pc' = "reading"
    /\ UNCHANGED <<req, treq, result, trace, sends>>
    /\ UNCHANGED <<ScopeVars, TaskVars, ClientVars>>

\* the body is read, parsed and classified
ReadResponse ==
    /\ pc = "reading"
    /\ LET rr == read_response(req.ty, resp[1])
       IN  /\ result' = rr.ret
           /\ trace' = trace \o rr.steps
    /\ pc' = "done"
    /\ UNCHANGED <<req, treq, resp, sends>>
    /\ UNCHANGED <<ScopeVars, TaskVars, ClientVars>>

\* the caller takes the returned value; the future and its locals are dropped
Return ==
    /\ pc = "done"
    /\ pc' = "idle"
    /\ treq' = NoRequest
    /\ resp' = None
    /\ result' = NotCalled
    /\ trace' = <<>>
    /\ UNCHANGED <<req, sends>>
    /\ UNCHANGED <<ScopeVars, TaskVars, ClientVars>>

----------------------------------------------------------------------------
(* Builder methods of ClientAuthRequest *)

set_client_id ==
    \E id \in ClientIds :
        Mutate("ClientAuthRequest", [req EXCEPT !.client_id = Some(id)])

set_client_secret ==
    \E secret \in ClientSecrets :
        Mutate("ClientAuthRequest", [req EXCEPT !.client_secret = Some(secret)])

(* Builder methods of GetUsersRequest *)

GetUsersRequest_set_auth ==
    \E a \in Tokens : Mutate("GetUsersRequest", [req EXCEPT !.auth = Some(a)])

add_id ==
    /\ req.ty = "GetUsersRequest" /\ CanGrow(req.id, MaxTerms)
    /\ \E id \in UserIds : Mutate("GetUsersRequest", [req EXCEPT !.id = Append(@, id)])

set_ids ==
    \E ids \in InputLists(UserIds, MaxTerms) :
        Mutate("GetUsersRequest", [req EXCEPT !.id = ids])

clear_ids == Mutate("GetUsersRequest", [req EXCEPT !.id = <<>>])

add_login ==
    /\ req.ty = "GetUsersRequest" /\ CanGrow(req.login, MaxTerms)
    /\ \E l \in UserNames : Mutate("GetUsersRequest", [req EXCEPT !.login = Append(@, l)])

clear_logins == Mutate("GetUsersRequest", [req EXCEPT !.login = <<>>])

set_logins ==
    \E ls \in InputLists(UserNames, MaxTerms) :
        Mutate("GetUsersRequest", [req EXCEPT !.login = ls])

(* Builder methods of GetClipsRequest *)

GetClipsRequest_set_auth ==
    \E a \in Tokens : Mutate("GetClipsRequest", [req EXCEPT !.auth = Some(a)])

GetClipsRequest_set_broadcaster_id ==
    \E id \in BroadcasterIds :
        Mutate("GetClipsRequest", [req EXCEPT !.query_type = BroadCasterId(id)])

set_game_id ==
    \E id \in GameIds : Mutate("GetClipsRequest", [req EXCEPT !.query_type = GameId(id)])

\* a variant of add_clip_id that always starts a new list
add_clip_id_replace ==
    \E id \in ClipIds :
        Mutate("GetClipsRequest", [req EXCEPT !.query_type = ClipId(<<id>>)])

add_clip_id ==
    /\ req.ty = "GetClipsRequest"
    /\ req.query_type.kind = "ClipId" => CanGrow(req.query_type.val, MaxClipIds)
    /\ \E id \in ClipIds :
        Mutate("GetClipsRequest",
               IF req.query_type.kind = "ClipId"
               THEN [req EXCEPT !.query_type.val = Append(@, id)]
               ELSE [req EXCEPT !.query_type = ClipId(<<id>>)])

set_clip_ids ==
    \E set \in InputLists(ClipIds, MaxClipIds) :
        Mutate("GetClipsRequest", [req EXCEPT !.query_type = ClipId(set)])

clear_clip_ids ==
    Mutate("GetClipsRequest",
           IF req.query_type.kind = "ClipId"
           THEN [req EXCEPT !.query_type.val = <<>>]
           ELSE req)

set_count ==
    \E c \in Counts : Mutate("GetClipsRequest", [req EXCEPT !.count = Some(c)])

reset_count == Mutate("GetClipsRequest", [req EXCEPT !.count = None])

set_period ==
    \E s \in Times, e \in Times :
        Mutate("GetClipsRequest",
               [req EXCEPT !.period = Some([start |-> s, end |-> Some(e)])])

\* a variant of set_started_at that starts the period over
set_started_at_fresh ==
    \E s \in Times :
        Mutate("GetClipsRequest", [req EXCEPT !.period = Some([start |-> s, end |-> None])])

set_started_at ==
    \E s \in Times :
        Mutate("GetClipsRequest",
               IF is_some(req.period)
               THEN [req EXCEPT !.period = Some([@[1] EXCEPT !.start = s])]
               ELSE [req EXCEPT !.period = Some([start |-> s, end |-> None])])

set_ended_at ==
    \E e \in Times :
        Mutate("GetClipsRequest",
               IF is_some(req.period)
               THEN [req EXCEPT !.period = Some([@[1] EXCEPT !.end = Some(e)])]
               ELSE req)

before ==
    \E p \in Paginations :
        Mutate("GetClipsRequest", [req EXCEPT !.pagination = PaginationBefore(p)])

after ==
    \E p \in Paginations :
        Mutate("GetClipsRequest", [req EXCEPT !.pagination = PaginationAfter(p)])

(* Builder methods of GetChannelInformationRequest *)

GetChannelInformationRequest_set_auth ==
    \E a \in Tokens :
        Mutate("GetChannelInformationRequest", [req EXCEPT !.auth = Some(a)])

GetChannelInformationRequest_set_broadcaster_id ==
    \E id \in BroadcasterIds :
        Mutate("GetChannelInformationRequest", [req EXCEPT !.broadcaster_id = Some(id)])

----------------------------------------------------------------------------

Next ==
    \/ set_client_id
    \/ set_client_secret
    \/ GetUsersRequest_set_auth
    \/ add_id
    \/ set_ids
    \/ clear_ids
    \/ add_login
    \/ clear_logins
    \/ set_logins
    \/ GetClipsRequest_set_auth
    \/ GetClipsRequest_set_broadcaster_id
    \/ set_game_id
    \/ add_clip_id
    \/ set_clip_ids
    \/ clear_clip_ids
    \/ set_count
    \/ reset_count
    \/ set_period
    \/ set_started_at
    \/ set_ended_at
    \/ before
    \/ after
    \/ GetChannelInformationRequest_set_auth
    \/ GetChannelInformationRequest_set_broadcaster_id
    \/ MakeRequest
    \/ SendFails
    \/ SendCompletes
    \/ ReadResponse
    \/ Return

Spec == Init /\ [][Next]_vars

----------------------------------------------------------------------------
(* Classification of a failure body over the whole range of u16: the call   *)
(* starts where a ready request has been sent and a {status, message} body  *)
(* with any 16-bit status has arrived.                                      *)

ReadyClientAuthRequest ==
    [builder("ClientAuthRequest") EXCEPT !.client_id = Some("cid1"),
                                         !.client_secret = Some("sec1")]

InitStatus ==
    /\ req = ReadyClientAuthRequest
    /\ pc = "reading"
    /\ treq = make_request(req).rb
    /\ trace = make_request(req).steps
    /\ result = Pending
    /\ sends = 1
    /\ NoScopes
    /\ NoCalls
    /\ \E s \in 0..U16Max, m \in Messages :
          resp = Some(Json(With2(EmptyObject, "status", JNum(s), "message", JStr(m))))

NextStatus == ReadResponse

SpecStatus == InitStatus /\ [][NextStatus]_vars

----------------------------------------------------------------------------
(* Operations on a ScopeSet: a second specification, the request left alone *)

Held(set) == {s \in Scope : contains(set, s)}

\* an iterator holds &'set ScopeSet: while one lives, no &mut self method runs
NoBorrow == \A i \in IterIds : ~iters[i].live

InitScopes ==
    /\ req = builder("ClientAuthRequest")
    /\ pc = "idle"
    /\ treq = NoRequest
    /\ resp = None
    /\ result = NotCalled
    /\ trace = <<>>
    /\ sends = 0
    /\ NoScopes
    /\ NoCalls

\* scope_set.insert(a)
ScopeSet_insert(a) ==
    /\ NoBorrow
    /\ collected = None
    /\ contains(scope_set, a) \/ Cardinality(Held(scope_set)) < MaxHeld
    /\ scope_set' = insert(scope_set, a)
    /\ UNCHANGED <<iters, wire, collected>>
    /\ UNCHANGED <<RequestVars, TaskVars, ClientVars>>

\* scope_set.remove(a)
ScopeSet_remove(a) ==
    /\ NoBorrow
    /\ collected = None
    /\ scope_set' = remove(scope_set, a)
    /\ UNCHANGED <<iters, wire, collected>>
    /\ UNCHANGED <<RequestVars, TaskVars, ClientVars>>

\* let it = scope_set.scope_iter(), kept as iterator 1
scope_iter ==
    /\ ~iters[1].live
    /\ collected = None
    /\ iters' = [iters EXCEPT ![1] = ScopeIter(FALSE)]
    /\ UNCHANGED <<scope_set, wire, collected>>
    /\ UNCHANGED <<RequestVars, TaskVars, ClientVars>>

\* let it = scope_set.spec_iter(), kept as iterator 2
spec_iter ==
    /\ ~iters[2].live
    /\ collected = None
    /\ iters' = [iters EXCEPT ![2] = ScopeIter(TRUE)]
    /\ UNCHANGED <<scope_set, wire, collected>>
    /\ UNCHANGED <<RequestVars, TaskVars, ClientVars>>

\* a variant of Iterator_next that starts over after the last item
Iterator_next_rewind(i) ==
    /\ iters[i].live
    /\ LET it == iters[i]
           n == IF it.spec THEN SpecIter_next(it.cursor, scope_set)
                ELSE ScopeIter_next(it.cursor, scope_set)
       IN  iters' = [iters EXCEPT ![i] =
                        [it EXCEPT !.cursor = IF is_some(n.item) THEN n.cursor ELSE 0,
                                   !.out = IF is_some(n.item) THEN Append(@, n.item[1]) ELSE @,
                                   !.ended = is_none(n.item)]]
    /\ UNCHANGED <<scope_set, wire, collected>>
    /\ UNCHANGED <<RequestVars, TaskVars, ClientVars>>

\* a variant of Iterator_next that does not step over the item it returns
Iterator_next_peek(i) ==
    /\ iters[i].live
    /\ LET it == iters[i]
           n == IF it.spec THEN SpecIter_next(it.cursor, scope_set)
                ELSE ScopeIter_next(it.cursor, scope_set)
       IN  iters' = [iters EXCEPT ![i] =
                        [it EXCEPT !.cursor = IF is_some(n.item) THEN n.cursor - 1 ELSE n.cursor,
                                   !.out = IF is_some(n.item) THEN Append(@, n.item[1]) ELSE @,
                                   !.ended = is_none(n.item)]]
    /\ UNCHANGED <<scope_set, wire, collected>>
    /\ UNCHANGED <<RequestVars, TaskVars, ClientVars>>

\* a variant of Iterator_next in which the iterators share one cursor
Iterator_next_shared(i) ==
    /\ iters[i].live
    /\ LET n == ScopeIter_next(iters[i].cursor, scope_set)
       IN  iters' = [j \in IterIds |->
                        IF iters[j].live
                        THEN [iters[j] EXCEPT !.cursor = n.cursor, !.ended = is_none(n.item)]
                        ELSE iters[j]]
    /\ UNCHANGED <<scope_set, wire, collected>>
    /\ UNCHANGED <<RequestVars, TaskVars, ClientVars>>

\* it.next() on iterator i
Iterator_next(i) ==
    /\ iters[i].live
    /\ LET it == iters[i]
           n == IF it.spec THEN SpecIter_next(it.cursor, scope_set)
                ELSE ScopeIter_next(it.cursor, scope_set)
       IN  iters' = [iters EXCEPT ![i] =
                        [it EXCEPT !.cursor = n.cursor,
                                   !.out = IF is_some(n.item) THEN Append(@, n.item[1]) ELSE @,
                                   !.ended = is_none(n.item)]]
    /\ UNCHANGED <<scope_set, wire, collected>>
    /\ UNCHANGED <<RequestVars, TaskVars, ClientVars>>

\* iterator i goes out of scope, after any number of next() calls
Iterator_drop(i) ==
    /\ iters[i].live
    /\ iters' = [iters EXCEPT ![i] = NoIter]
    /\ UNCHANGED <<scope_set, wire, collected>>
    /\ UNCHANGED <<RequestVars, TaskVars, ClientVars>>

\* scope_set.spec_iter().collect::<Vec<_>>().into_iter().collect::<ScopeSet>()
spec_iter_round_trip ==
    /\ NoBorrow
    /\ collected = None
    /\ LET list == spec_iter_collect(scope_set)
       IN  /\ wire' = Some(list)
           /\ collected' = Some(from_iter(list))
    /\ UNCHANGED <<scope_set, iters>>
    /\ UNCHANGED <<RequestVars, TaskVars, ClientVars>>

\* the list and the collected set go out of scope
collected_drop ==
    /\ collected # None
    /\ wire' = None
    /\ collected' = None
    /\ UNCHANGED <<scope_set, iters>>
    /\ UNCHANGED <<RequestVars, TaskVars, ClientVars>>

NextScopes ==
    \/ \E a \in Scope : ScopeSet_insert(a)
    \/ \E a \in Scope : ScopeSet_remove(a)
    \/ scope_iter
    \/ spec_iter
    \/ \E i \in IterIds : Iterator_next(i)
    \/ \E i \in IterIds : Iterator_drop(i)
    \/ spec_iter_round_trip
    \/ collected_drop

SpecScopes == InitScopes /\ [][NextScopes]_vars

----------------------------------------------------------------------------
(* Iterating a ScopeSet to the end: a third specification over given sets *)

\* the first, two middle and the last variant
IterScopes == {"AnalyticsReadExtensions", "BitsRead", "ClipsEdit", "WhispersEdit"}

\* the set left by ScopeSet::new() and one insert per element of S
ScopeSet_of(S) == [scopes |-> [i \in 0..(BitWidth - 1) |-> \E s \in S : as_usize(s) = i]]

InitIter ==
    /\ req = builder("ClientAuthRequest")
    /\ pc = "idle"
    /\ treq = NoRequest
    /\ resp = None
    /\ result = NotCalled
    /\ trace = <<>>
    /\ sends = 0
    /\ scope_set \in {ScopeSet_of(S) : S \in {T \in SUBSET IterScopes : Cardinality(T) <= MaxHeld}}
    /\ iters = [i \in IterIds |-> NoIter]
    /\ wire = None
    /\ collected = None
    /\ NoCalls

NextIter ==
    \/ scope_iter
    \/ spec_iter
    \/ \E i \in IterIds : Iterator_next(i)
    \/ \E i \in IterIds : Iterator_drop(i)

\* the caller of an iterator keeps calling next() until it drops it
SpecIter == InitIter /\ [][NextIter]_vars /\ \A i \in IterIds : WF_vars(Iterator_next(i))

----------------------------------------------------------------------------
(* Collecting a ScopeSet from a list of strings: a third specification *)

\* strings that from_twitch_str does not list
UnknownStrings == {"", "user:manage:blocked_users", "channel:edit", "USER:EDIT", "user:edit "}
WireStrings == {as_twitch_str(s) : s \in Scope} \cup UnknownStrings
WireLists == UNION {[1..n -> WireStrings] : n \in 0..MaxStrs}

InitCollect ==
    /\ req = builder("ClientAuthRequest")
    /\ pc = "idle"
    /\ treq = NoRequest
    /\ resp = None
    /\ result = NotCalled
    /\ trace = <<>>
    /\ sends = 0
    /\ scope_set = ScopeSet_new
    /\ iters = [i \in IterIds |-> NoIter]
    /\ wire \in {Some(list) : list \in WireLists}
    /\ collected = None
    /\ NoCalls

\* let scopes: ScopeSet = list.into_iter().collect()
from_list ==
    /\ collected = None
    /\ collected' = Some(from_iter(wire[1]))
    /\ UNCHANGED <<scope_set, iters, wire>>
    /\ UNCHANGED <<RequestVars, TaskVars, ClientVars>>

NextCollect == from_list

SpecCollect == InitCollect /\ [][NextCollect]_vars

----------------------------------------------------------------------------
(* Requests made from spawned tasks that share one transport client and one *)
(* auth token behind an Arc: a specification of its own                     *)

TaskIds == 1..MaxTasks

\* Arc<A>::as_ref(): the auth field of a request is a clone of the Arc, and
\* what the request reads through it is the token behind the Arc
as_ref(r, tok) ==
    IF r.ty # "ClientAuthRequest" /\ is_some(r.auth) THEN [r EXCEPT !.auth = Some(tok)] ELSE r

\* a variant of write_headers that moves the token string out of the token
ClientAuthToken_write_headers_once(tok, rb) ==
    [rb |-> write_headers(Some(tok), rb), tok |-> [tok EXCEPT !.token = ""]]

\* ClientAuthToken::write_headers(&self, req): the builder returned, and the
\* token as the call leaves it
ClientAuthToken_write_headers(tok, rb) ==
    [rb |-> write_headers(Some(tok), rb), tok |-> tok]

\* the requests the spawned tasks build: set_auth(auth_token.clone()) and a
\* broadcaster id, the same without a selector, and a request of another type
SpawnedRequests ==
    {[builder("GetClipsRequest") EXCEPT !.auth = Some("Arc"), !.query_type = BroadCasterId("b1")],
     [builder("GetClipsRequest") EXCEPT !.auth = Some("Arc")],
     [builder("GetChannelInformationRequest") EXCEPT !.auth = Some("Arc"),
                                                     !.broadcaster_id = Some("b1")]}

InitConcurrent ==
    /\ req = builder("ClientAuthRequest")
    /\ pc = "idle"
    /\ treq = NoRequest
    /\ resp = None
    /\ result = NotCalled
    /\ trace = <<>>
    /\ sends = 0
    /\ NoScopes
    /\ tasks \in [TaskIds -> {[req |-> r, pc |-> "idle", treq |-> NoRequest, resp |-> None,
                                result |-> NotCalled] : r \in SpawnedRequests}]
    /\ token = ClientAuthToken
    /\ net = [t \in TaskIds |-> None]
    /\ client = None
    /\ auth_call = None

\* task t calls make_request and runs to req.send().await, or returns early
Task_make_request(t) ==
    /\ tasks[t].pc = "idle"
    /\ LET r == tasks[t].req
           m == make_request(as_ref(r, token))
           w == ClientAuthToken_write_headers(token, client_request(METHOD(r.ty), ENDPOINT(r.ty)))
       IN  /\ tasks' = [tasks EXCEPT ![t] = [@ EXCEPT !.pc = IF m.sent THEN "sending" ELSE "done",
                                                      !.treq = IF m.sent THEN [m.rb EXCEPT !.headers = w.rb.headers]
                                                               ELSE m.rb,
                                                      !.result = m.ret]]
           /\ token' = IF m.sent THEN w.tok ELSE token
    /\ UNCHANGED <<net, RequestVars, ScopeVars, ClientVars>>

\* the transport client answers the request task t has sent: with an error,
\* or with a response body
Transport_respond(t) ==
    /\ tasks[t].pc = "sending"
    /\ net[t] = None
    /\ LET ty == tasks[t].req.ty
           bodies == {NotJson} \cup {Json(o) : o \in SuccessObjects(ty)}
                     \cup {Json(With2(EmptyObject, "status", JNum(st), "message", JStr("bad"))) :
                              st \in {401, 402}}
       IN  \E x \in {[ok |-> FALSE, body |-> NotJson]} \cup {[ok |-> TRUE, body |-> b] : b \in bodies} :
               net' = [net EXCEPT ![t] = Some(x)]
    /\ UNCHANGED <<tasks, token, RequestVars, ScopeVars, ClientVars>>

\* a variant of Task_send_completes that takes whichever answer has arrived
Task_send_completes_any(t) ==
    /\ tasks[t].pc = "sending"
    /\ \E u \in TaskIds :
        /\ net[u] # None
        /\ LET x == net[u][1]
           IN  tasks' = [tasks EXCEPT ![t] =
                            IF x.ok THEN [@ EXCEPT !.pc = "reading", !.resp = Some(x.body)]
                            ELSE [@ EXCEPT !.pc = "done", !.result = ReqwestError("send")]]
    /\ UNCHANGED <<token, net, RequestVars, ScopeVars, ClientVars>>

\* req.send().await of task t completes with the answer to its own request
Task_send_completes(t) ==
    /\ tasks[t].pc = "sending"
    /\ net[t] # None
    /\ LET x == net[t][1]
       IN  tasks' = [tasks EXCEPT ![t] =
                        IF x.ok THEN [@ EXCEPT !.pc = "reading", !.resp = Some(x.body)]
                        ELSE [@ EXCEPT !.pc = "done", !.result = ReqwestError("send")]]
    /\ UNCHANGED <<token, net, RequestVars, ScopeVars, ClientVars>>

\* task t reads, parses and classifies the body it received
Task_read_response(t) ==
    /\ tasks[t].pc = "reading"
    /\ LET rr == read_response(tasks[t].req.ty, tasks[t].resp[1])
       IN  tasks' = [tasks EXCEPT ![t] = [@ EXCEPT !.pc = "done", !.result = rr.ret]]
    /\ UNCHANGED <<token, net, RequestVars, ScopeVars, ClientVars>>

\* task t takes the returned value; the future and its locals are dropped
Task_return(t) ==
    /\ tasks[t].pc = "done"
    /\ tasks' = [tasks EXCEPT ![t] = [@ EXCEPT !.pc = "idle", !.treq = NoRequest, !.resp = None,
                                               !.result = NotCalled]]
    /\ net' = [net EXCEPT ![t] = None]
    /\ UNCHANGED <<token, RequestVars, ScopeVars, ClientVars>>

NextConcurrent ==
    \/ \E t \in TaskIds : Task_make_request(t)
    \/ \E t \in TaskIds : Transport_respond(t)
    \/ \E t \in TaskIds : Task_send_completes(t)
    \/ \E t \in TaskIds : Task_read_response(t)
    \/ \E t \in TaskIds : Task_return(t)

SpecConcurrent == InitConcurrent /\ [][NextConcurrent]_vars

----------------------------------------------------------------------------
(* Client<Unauthorized>::client_auth: a specification of its own *)

\* a variant of ClientAuthToken::new with its two arguments exchanged
ClientAuthToken_new_swapped(access_token, id) ==
    [scopes |-> ScopeSet_new, token |-> id, client_id |-> access_token]

\* ClientAuthToken::new(token, id)
ClientAuthToken_new(access_token, id) ==
    [scopes |-> ScopeSet_new, token |-> access_token, client_id |-> id]

\* Client::new(client): the inner reqwest client behind an Arc, Unauthorized
InitClient ==
    /\ req = builder("ClientAuthRequest")
    /\ pc = "idle"
    /\ treq = NoRequest
    /\ resp = None
    /\ result = NotCalled
    /\ trace = <<>>
    /\ sends = 0
    /\ NoScopes
    /\ tasks = <<>>
    /\ token = ClientAuthToken
    /\ net = <<>>
    /\ \E rc \in {"rclient1", "rclient2"} :
         client = Some([common |-> [client |-> rc], current |-> [state |-> "Unauthorized"]])
    /\ auth_call = None

\* client.client_auth(id, secret) takes the client by value and runs to send().await
client_auth ==
    /\ auth_call = None
    /\ client # None
    /\ client[1].current.state = "Unauthorized"
    /\ \E id \in {"cid1", "cid2"}, secret \in ClientSecrets :
         auth_call' = Some([pc |-> "sending", self |-> client[1], id |-> id, secret |-> secret,
                            treq |-> [client_request("GET", "https://id.twitch.tv/oauth2/token/")
                                        EXCEPT !.query = << <<"client_id", id>>,
                                                            <<"client_secret", secret>>,
                                                            <<"grant_type", "client_credentials">> >>],
                            resp |-> None, result |-> NotCalled])
    /\ client' = None
    /\ UNCHANGED <<RequestVars, ScopeVars, TaskVars>>

\* send().await: Err(e) => return Err((e.into(), self)), or a response arrives
client_auth_send ==
    /\ auth_call # None
    /\ auth_call[1].pc = "sending"
    /\ LET c == auth_call[1]
           bodies == Bodies("ClientAuthRequest")
                     \cup {Json(With2(EmptyObject, "access_token", JStr("tok2"),
                                      "expires_in", JNum(0)))}
       IN  \/ auth_call' = Some([c EXCEPT !.pc = "done",
                                          !.result = [ok |-> FALSE, error |-> ReqwestError("send"),
                                                      client |-> c.self]])
           \/ \E b \in bodies : auth_call' = Some([c EXCEPT !.pc = "reading", !.resp = Some(b)])
    /\ UNCHANGED <<client, RequestVars, ScopeVars, TaskVars>>

\* r.json::<PossibleResponse<ClientAuthResponse>>().await and the match on it
client_auth_json ==
    /\ auth_call # None
    /\ auth_call[1].pc = "reading"
    /\ LET c == auth_call[1]
           r == PossibleResponse_deserialize("ClientAuthRequest", c.resp[1])
       IN  auth_call' = Some([c EXCEPT
               !.pc = "done",
               !.result =
                   CASE r.variant = "Response" ->
                          [ok |-> TRUE,
                           client |-> [common |-> c.self.common,
                                       current |-> [state |-> "ClientCredentials",
                                                    token |-> ClientAuthToken_new(r.r.access_token, c.id)]]]
                     [] r.variant = "Failure" ->
                          [ok |-> FALSE, error |-> [kind |-> "FailureStatusNum", from |-> r.f],
                           client |-> c.self]
                     [] OTHER ->
                          [ok |-> FALSE, error |-> ReqwestError("decode"), client |-> c.self]])
    /\ UNCHANGED <<client, RequestVars, ScopeVars, TaskVars>>

\* the caller takes the Result: the authorized client, or the error with its
\* own client back
client_auth_return ==
    /\ auth_call # None
    /\ auth_call[1].pc = "done"
    /\ client' = Some(auth_call[1].result.client)
    /\ auth_call' = None
    /\ UNCHANGED <<RequestVars, ScopeVars, TaskVars>>

NextClient ==
    \/ client_auth
    \/ client_auth_send
    \/ client_auth_json
    \/ client_auth_return

SpecClient == InitClient /\ [][NextClient]_vars

----------------------------------------------------------------------------
(* Properties *)

InSeq(x, seq) == \E i \in 1..Len(seq) : seq[i] = x
Count(x, seq) == Cardinality({i \in 1..Len(seq) : seq[i] = x})
WriteOps == {"write_headers", "write_parameters", "write_body"}

Body == resp[1]
Delivered == is_some(resp)
ParsesAsSuccess == Delivered /\ Body.json /\ Response_deserialize(req.ty, Body.obj).ok
ParsesAsFailure ==
    /\ Delivered /\ Body.json
    /\ ~Response_deserialize(req.ty, Body.obj).ok
    /\ FailureStatus_deserialize(Body.obj).ok
ParsesAsNeither == Delivered /\ ~ParsesAsSuccess /\ ~ParsesAsFailure

\* C1: a make_request call made while ready() reports an error returns that
\* error and never reaches the transport: the number of sends is unchanged,
\* no send step is taken and no header, parameter or body is written onto a
\* transport request.
C1_NotReadyNeverSends ==
    [][(pc = "idle" /\ pc' # "idle" /\ ready(req).kind # "Ok")
        => /\ pc' = "done"
           /\ result' = ready(req)
           /\ sends' = sends
           /\ ~InSeq("send", trace')
           /\ \A op \in WriteOps : ~InSeq(op, treq'.ops) /\ ~InSeq(op, trace')
           /\ treq'.headers = <<>> /\ treq'.query = <<>> /\ treq'.body = None]_vars

C1_Witness ==
    /\ pc = "done"
    /\ ready(req).kind = "MalformedRequest"
    /\ result = ready(req)
    /\ sends = 0

\* C2: a body that parses as a failure {status: s, message: m} with s one of
\* 400, 401, 500 is returned as KnownErrorStatus carrying BadRequestCode,
\* AuthErrorCode, ServerErrorCode respectively and the same message m.
KnownVariant(s) ==
    CASE s = 400 -> "BadRequestCode"
      [] s = 401 -> "AuthErrorCode"
      [] s = 500 -> "ServerErrorCode"

C2_KnownStatusPromoted ==
    (pc = "done" /\ ParsesAsFailure /\ Body.obj["status"].n \in {400, 401, 500})
        => /\ result.kind = "KnownErrorStatus"
           /\ result.status = KnownVariant(Body.obj["status"].n)
           /\ result.message = Body.obj["message"].s

C2_Witness ==
    /\ pc = "done"
    /\ ParsesAsFailure
    /\ Body.obj["status"].n = 500
    /\ result.kind = "KnownErrorStatus"
    /\ result.message = "bad"

\* C3: for every 16-bit status s outside {400, 401, 500}, a failure body
\* {status: s, message: m} is returned as UnkownErrorStatus carrying s and m
\* unchanged; the classification is total (never a panic) and yields a known
\* status exactly for 400, 401 and 500.
C3_UnknownStatusKept ==
    (pc = "done" /\ ParsesAsFailure)
        => /\ result.kind \in {"KnownErrorStatus", "UnkownErrorStatus"}
           /\ result.kind = "KnownErrorStatus" <=> Body.obj["status"].n \in {400, 401, 500}
           /\ result.kind = "UnkownErrorStatus"
                => /\ result.code = Body.obj["status"].n
                   /\ result.message = Body.obj["message"].s

C3_Witness ==
    /\ pc = "done"
    /\ ParsesAsFailure
    /\ Body.obj["status"].n = 599
    /\ result = [kind |-> "UnkownErrorStatus", code |-> 599, message |-> "x"]

\* C4: a body that parses as the typed success payload is returned as Ok with
\* every field of the payload equal to the field of the body, and from_status
\* is not applied.
PayloadMatchesBody ==
    CASE req.ty = "ClientAuthRequest" ->
           /\ result.payload.access_token = Body.obj["access_token"].s
           /\ result.payload.expires_in = Body.obj["expires_in"].n
      [] req.ty = "GetUsersRequest" ->
           result.payload.users = Body.obj["data"].items
      [] req.ty = "GetClipsRequest" ->
           /\ result.payload.clips = Body.obj["data"].items
           /\ result.payload.pagination.cursor = Body.obj["pagination"].items
      [] req.ty = "GetChannelInformationRequest" ->
           result.payload.channels = Body.obj["data"].items

C4_SuccessUnchanged ==
    (pc = "done" /\ ParsesAsSuccess)
        => /\ result.kind = "Ok"
           /\ PayloadMatchesBody
           /\ ~InSeq("from_status", trace)

C4_Witness ==
    /\ pc = "done"
    /\ ParsesAsSuccess
    /\ Body.obj["status"].t = "num"
    /\ result.kind = "Ok"

\* C5: every make_request call ends in one of Ok, MalformedRequest,
\* KnownErrorStatus, UnkownErrorStatus or the transport error ReqwestError.
C5_OutcomeIsOneOfFive ==
    pc = "done"
        => result.kind \in {"Ok", "MalformedRequest", "KnownErrorStatus",
                            "UnkownErrorStatus", "ReqwestError"}

\* C6: make_request on a GetUsersRequest, GetClipsRequest or
\* GetChannelInformationRequest without an auth token returns
\* MalformedRequest and sends nothing.
C6_NoAuthIsMalformed ==
    (/\ pc = "done"
     /\ req.ty \in {"GetUsersRequest", "GetClipsRequest", "GetChannelInformationRequest"}
     /\ is_none(req.auth))
        => result.kind = "MalformedRequest" /\ ~InSeq("send", trace)

\* C7: when the send fails (the request was sent and no response was
\* delivered), make_request returns ReqwestError and no body is read or
\* parsed and no status is classified.
C7_SendFailureShortCircuits ==
    (pc = "done" /\ InSeq("send", trace) /\ ~Delivered)
        => /\ result.kind = "ReqwestError"
           /\ ~InSeq("json", trace)
           /\ ~InSeq("into_result", trace)
           /\ ~InSeq("from_status", trace)

C7_Witness ==
    /\ pc = "done"
    /\ InSeq("send", trace)
    /\ ~Delivered
    /\ result = ReqwestError("send")

\* C8: a body that matches neither the success shape nor the failure shape
\* makes make_request return the transport error ReqwestError: never Ok,
\* never a known or unknown status error, never a panic.
C8_UnparsableBodyIsTransportError ==
    (pc = "done" /\ ParsesAsNeither) => result.kind = "ReqwestError"

C8_Witness ==
    /\ pc = "done"
    /\ ParsesAsNeither
    /\ Body.json
    /\ Body.obj["status"].n = U16Max + 1
    /\ result = ReqwestError("decode")

\* C9: readiness is evaluated on every make_request call from the field
\* values of that moment: a call sends iff ready() holds then, whatever the
\* earlier calls on the same request did.
C9_ReadinessNeverCached ==
    [][(pc = "idle" /\ pc' # "idle")
        => /\ (sends' = sends + 1) <=> (ready(req) = ReadyOk)
           /\ (sends' = sends) <=> (ready(req) # ReadyOk)
           /\ ready(req) # ReadyOk => result' = ready(req)]_vars

\* a request that was sent once, was then mutated and is now rejected
C9_Witness ==
    /\ pc = "done"
    /\ sends = 1
    /\ result.kind = "MalformedRequest"
    /\ req.ty = "GetUsersRequest"
    /\ req.id = <<>> /\ req.login = <<>>

\* C10: in a make_request that passes readiness the transport request is
\* created from the METHOD and ENDPOINT of the request type, then the
\* headers, the parameters and the body are written, each once and in that
\* order, and the send comes after all three.
TypeMethod ==
    IF req.ty = "ClientAuthRequest" THEN "POST" ELSE "GET"

TypeEndpoint ==
    CASE req.ty = "ClientAuthRequest" -> "https://id.twitch.tv/oauth2/token"
      [] req.ty = "GetUsersRequest" -> "https://api.twitch.tv/helix/users"
      [] req.ty = "GetClipsRequest" -> "https://api.twitch.tv/helix/clips"
      [] req.ty = "GetChannelInformationRequest" -> "https://api.twitch.tv/helix/channels"

C10_WriteOrder ==
    (pc # "idle" /\ ready(req) = ReadyOk)
        => /\ Len(trace) >= 6
           /\ SubSeq(trace, 1, 6) = <<"ready", "request", "write_headers",
                                      "write_parameters", "write_body", "send">>
           /\ treq.ops = <<"request", "write_headers", "write_parameters", "write_body">>
           /\ \A op \in WriteOps \cup {"request", "send"} : Count(op, trace) = 1
           /\ treq.method = TypeMethod
           /\ treq.url = TypeEndpoint

C10_Witness ==
    /\ pc = "sending"
    /\ req.ty = "GetClipsRequest"
    /\ treq.method = "GET"
    /\ Len(treq.headers) = 2
    /\ Len(treq.query) = 4

----------------------------------------------------------------------------
\* C11: each make_request call invokes the transport send at most once,
\* whatever the outcome: the call's trace never holds two sends, a step sends
\* at most once, and only the step that starts a call sends (no step taken
\* after the request went out, for any outcome, sends again).
C11_SendAtMostOnce ==
    [][/\ sends' <= sends + 1
       /\ pc # "idle" => sends' = sends
       /\ Count("send", trace') <= 1]_vars

C11_Witness ==
    /\ pc = "done"
    /\ result.kind = "ReqwestError"
    /\ result.cause = "send"
    /\ Count("send", trace) = 1
    /\ sends = 1

----------------------------------------------------------------------------
Terms == Len(req.id) + Len(req.login)

\* C12: for a GetUsersRequest with an auth token set, ready() is Ok iff the
\* request holds between 1 and 100 ids and logins in total, and a call made
\* with 0 terms or more than 100 terms returns MalformedRequest without
\* building or sending a request.
C12_UsersTermCount ==
    (req.ty = "GetUsersRequest" /\ is_some(req.auth)) =>
        /\ (ready(req) = ReadyOk) <=> (1 <= Terms /\ Terms <= 100)
        /\ (pc # "idle" /\ (Terms = 0 \/ Terms > 100)) =>
              /\ result.kind = "MalformedRequest"
              /\ treq = NoRequest
              /\ ~InSeq("send", trace)
        /\ (pc # "idle" /\ 1 <= Terms /\ Terms <= 100) => InSeq("send", trace)

C12_Witness ==
    /\ req.ty = "GetUsersRequest"
    /\ is_some(req.auth)
    /\ Len(req.id) = 100
    /\ Len(req.login) = 1
    /\ pc = "done"
    /\ result.kind = "MalformedRequest"

----------------------------------------------------------------------------
\* C13: for a ClientAuthRequest, ready() is Ok iff client_id and client_secret
\* are both set; when both are missing the reason names client_id; and a call
\* made with either one missing returns MalformedRequest without building or
\* sending a request.
C13_ClientAuthNeedsBoth ==
    req.ty = "ClientAuthRequest" =>
        /\ (ready(req) = ReadyOk) <=> (is_some(req.client_id) /\ is_some(req.client_secret))
        /\ (is_none(req.client_id) /\ is_none(req.client_secret)) =>
              ready(req) = MalformedRequest("field client_id must be set")
        /\ (pc # "idle" /\ (is_none(req.client_id) \/ is_none(req.client_secret))) =>
              /\ result.kind = "MalformedRequest"
              /\ treq = NoRequest
              /\ ~InSeq("send", trace)

C13_Witness ==
    /\ req.ty = "ClientAuthRequest"
    /\ is_none(req.client_id)
    /\ is_none(req.client_secret)
    /\ pc = "done"
    /\ result = MalformedRequest("field client_id must be set")

----------------------------------------------------------------------------
SelectorKinds == {"BroadCasterId", "GameId", "ClipId"}
SelectorKeys == {"broadcaster_id", "game_id", "id"}
HeldKeys(pairs) == {pairs[i][1] : i \in 1..Len(pairs)} \cap SelectorKeys

\* C14: a GetClipsRequest holds the selector kind of the most recent
\* set_broadcaster_id / set_game_id / add_clip_id / set_clip_ids call (each
\* replaces a selector of another kind), clear_clip_ids keeps the kind, no
\* other method touches the selector, the query never carries keys of two
\* selector kinds, and with auth set ready() is Ok only when exactly one
\* selector is set.
C14_OneSelector ==
    [][(req.ty = "GetClipsRequest" /\ req' # req) =>
        /\ req'.query_type # req.query_type =>
            /\ req'.query_type.kind = "BroadCasterId" \/ ~GetClipsRequest_set_broadcaster_id
            /\ req'.query_type.kind = "GameId" \/ ~set_game_id
            /\ req'.query_type.kind = "ClipId" \/ ~(add_clip_id \/ set_clip_ids)
            /\ req'.query_type.kind = req.query_type.kind \/ ~clear_clip_ids
            /\ \/ GetClipsRequest_set_broadcaster_id
               \/ set_game_id
               \/ add_clip_id
               \/ clear_clip_ids
               \/ set_clip_ids
            /\ Cardinality(HeldKeys(GetClipsRequest_serialize(req').pairs)) =
                  (IF req'.query_type.val = <<>> THEN 0 ELSE 1)
        /\ (is_some(req'.auth) /\ ready(req') = ReadyOk) =>
              /\ req'.query_type.kind \in SelectorKinds
              /\ req'.query_type.val # <<>>]_vars

C14_Witness ==
    /\ req.ty = "GetClipsRequest"
    /\ is_some(req.auth)
    /\ req.query_type.kind = "ClipId"
    /\ Len(req.query_type.val) = 2
    /\ pc = "sending"
    /\ Cardinality(HeldKeys(treq.query)) = 1

----------------------------------------------------------------------------
\* C15: building a ScopeSet from the wire strings that spec_iter yields for a
\* set S gives a set whose contains() agrees with S on every one of the 26
\* scopes.
C15_RoundTrip ==
    collected # None =>
        \A s \in Scope : contains(collected[1], s) = contains(scope_set, s)

C15_Witness ==
    /\ collected # None
    /\ wire = Some(<<"user:mange:blocked_users", "chat:edit">>)
    /\ contains(scope_set, "UserManageBlockedUsers")
    /\ contains(collected[1], "ChannelEdit")

----------------------------------------------------------------------------
\* what an iterator hands out for a scope: the scope, or its wire string
ItemOf(it, s) == IF it.spec THEN as_twitch_str(s) ELSE s

\* the scopes of S in ascending discriminant order
Ranked(S) ==
    [k \in 1..Cardinality(S) |->
        CHOOSE s \in S : Cardinality({t \in S : as_usize(t) < as_usize(s)}) = k - 1]

\* the held scopes an iterator at `cursor` has passed
Passed(set, cursor) == {s \in Held(set) : as_usize(s) < cursor}

\* C16: an iterator (scope_iter or spec_iter) yields exactly the scopes for
\* which contains() is true, each once, in strictly ascending discriminant
\* order, whatever the order of the inserts and removes that built the set:
\* what it has yielded so far is the ascending list of the held scopes below
\* its cursor, and when it has returned None that is every held scope.
C16_IterYieldsHeldAscending ==
    \A i \in IterIds :
        iters[i].live =>
            LET it == iters[i]
                want == Ranked(Passed(scope_set, it.cursor))
            IN  /\ it.out = [k \in 1..Len(want) |-> ItemOf(it, want[k])]
                /\ it.ended => Passed(scope_set, it.cursor) = Held(scope_set)

C16_Witness ==
    /\ iters[1].ended
    /\ iters[1].out = <<"ChannelReadEditors", "UserEdit">>
    /\ iters[2].ended
    /\ iters[2].out = <<"channel:read:editors", "user:edit">>

----------------------------------------------------------------------------
IsPrefix(a, b) == Len(a) <= Len(b) /\ SubSeq(b, 1, Len(a)) = a

\* the two iterators, one of each kind, agree on what they have yielded so far
SameSequence ==
    (iters[1].live /\ iters[2].live) =>
        LET spec1 == [k \in 1..Len(iters[1].out) |-> as_twitch_str(iters[1].out[k])]
        IN  /\ IsPrefix(spec1, iters[2].out) \/ IsPrefix(iters[2].out, spec1)
            /\ (iters[1].ended /\ iters[2].ended) => spec1 = iters[2].out

\* C17: iteration does not consume the set and is restartable: a next() call,
\* the creation of an iterator and its drop (after a full or a partial
\* iteration) leave the set unchanged, a next() on one iterator leaves the
\* other iterator unchanged, a new iterator starts at cursor 0 whatever was
\* iterated before, and two iterations of the same set yield the same sequence.
C17_IterationReadOnly ==
    [][/\ \A i \in IterIds :
            Iterator_next(i) =>
                /\ scope_set' = scope_set
                /\ \A j \in IterIds \ {i} : iters'[j] = iters[j]
       /\ iters' # iters => scope_set' = scope_set
       /\ \A i \in IterIds :
            (~iters[i].live /\ iters'[i].live) =>
                (iters'[i].cursor = 0 /\ iters'[i].out = <<>>)
       /\ SameSequence']_vars

C17_Witness ==
    /\ iters[1].ended
    /\ Len(iters[1].out) = 2
    /\ iters[2].live
    /\ ~iters[2].ended
    /\ Len(iters[2].out) = 1
    /\ Cardinality(Held(scope_set)) = 2

----------------------------------------------------------------------------
\* C18: collecting a ScopeSet from a list of strings always yields a set; a
\* scope is contained in it iff its wire string is in the list, wherever in
\* the list and whatever the other strings are; a string that no scope has as
\* its wire string is dropped and never comes out of spec_iter.
ScopeStrings == {as_twitch_str(s) : s \in Scope}

C18_FromListDropsUnknown ==
    collected # None =>
        LET list == wire[1]
            set == collected[1]
            out == spec_iter_collect(set)
        IN  /\ \A s \in Scope : contains(set, s) <=> InSeq(as_twitch_str(s), list)
            /\ \A k \in 1..Len(list) : list[k] \notin ScopeStrings => ~InSeq(list[k], out)
            /\ \A j \in 1..Len(out) : InSeq(out[j], list)

C18_Witness ==
    /\ collected # None
    /\ wire = Some(<<"user:manage:blocked_users", "user:edit">>)
    /\ Held(collected[1]) = {"UserEdit"}

----------------------------------------------------------------------------
\* C19: insert(a) sets a's bit and remove(a) clears it, and neither changes
\* any other bit, so contains(b) keeps its value for every b # a; insert(a)
\* followed by remove(a) leaves a set without a in which every other scope
\* is held exactly as before.
C19_OnlyOwnBit ==
    [][scope_set' # scope_set =>
        /\ \A a \in Scope :
            /\ ScopeSet_insert(a) =>
                  /\ contains(scope_set', a)
                  /\ \A i \in (0..(BitWidth - 1)) \ {as_usize(a)} :
                        scope_set'.scopes[i] = scope_set.scopes[i]
            /\ ScopeSet_remove(a) =>
                  /\ ~contains(scope_set', a)
                  /\ \A i \in (0..(BitWidth - 1)) \ {as_usize(a)} :
                        scope_set'.scopes[i] = scope_set.scopes[i]
            /\ LET t == remove(insert(scope_set, a), a)
               IN  /\ ~contains(t, a)
                   /\ Held(t) = Held(scope_set) \ {a}
        /\ Cardinality({i \in 0..(BitWidth - 1) :
                          scope_set'.scopes[i] # scope_set.scopes[i]}) = 1]_vars

C19_Witness ==
    /\ Held(scope_set) = {"ChannelReadEditors"}
    /\ ~contains(scope_set, "UserEdit")
    /\ NoBorrow
    /\ collected = None

----------------------------------------------------------------------------
\* C20: ScopeSet::new() contains no scope; insert(a) on a set that contains a
\* and remove(a) on a set that does not contain a leave the set unchanged;
\* insert(a) twice equals insert(a) once, and likewise remove(a); and the
\* bit lookup behind contains() has a value for every scope (no error path).
C20_Idempotent ==
    /\ Held(ScopeSet_new) = {}
    /\ \A a \in Scope :
        /\ contains(scope_set, a) => insert(scope_set, a) = scope_set
        /\ ~contains(scope_set, a) => remove(scope_set, a) = scope_set
        /\ insert(insert(scope_set, a), a) = insert(scope_set, a)
        /\ remove(remove(scope_set, a), a) = remove(scope_set, a)
        /\ is_some(BitArray_get(scope_set.scopes, as_usize(a)))

C20_Witness ==
    /\ Held(scope_set) = {"AnalyticsReadExtensions", "WhispersEdit"}
    /\ NoBorrow

----------------------------------------------------------------------------
\* C21: Scope variants and wire strings are in bijection: looking up the wire
\* string of a scope gives that scope back, no two scopes have the same wire
\* string, and a string is looked up to a scope only if it is that scope's
\* wire string; every other string is looked up to None.  Checked on the
\* strings of the list that is collected.
WireRoundTrip == \A s \in Scope : from_twitch_str(as_twitch_str(s)) = Some(s)
WireInjective == \A s, t \in Scope : as_twitch_str(s) = as_twitch_str(t) => s = t

C21_WireStringBijection ==
    /\ WireRoundTrip
    /\ WireInjective
    /\ \A k \in 1..Len(wire[1]) :
          LET ts == wire[1][k]
              found == from_twitch_str(ts)
          IN  /\ found # None => (found[1] \in Scope /\ as_twitch_str(found[1]) = ts)
              /\ ts \notin ScopeStrings => found = None
              /\ collected # None => (found # None <=> \E s \in Held(collected[1]) : as_twitch_str(s) = ts)

C21_Witness ==
    /\ collected # None
    /\ wire = Some(<<"user:mange:blocked_users", "user:manage:blocked_users">>)
    /\ Held(collected[1]) = {"UserManageBlockedUsers"}

----------------------------------------------------------------------------
\* C23: headers(), parameters() and body() run only in a call whose first
\* step was ready() returning Ok on the fields the request still has; for
\* every builder state that ready() accepts none of the three panics; and no
\* call ends in a panic.
C23_NoPanic ==
    /\ result # Panic
    /\ ready(req) = ReadyOk =>
          (~headers(req).panic /\ ~parameters(req).panic /\ ~body(req).panic)
    /\ (\E op \in WriteOps : InSeq(op, trace)) =>
          /\ trace[1] = "ready"
          /\ ready(req) = ReadyOk
          /\ \A op \in WriteOps : InSeq(op, trace)

C23_Witness ==
    /\ pc = "sending"
    /\ req.ty = "ClientAuthRequest"
    /\ InSeq("write_parameters", trace)
    /\ treq.query[1] = <<"client_id", "cid1">>
    /\ result = Pending

----------------------------------------------------------------------------
\* C24: the period of a GetClipsRequest has an end only together with a
\* start; set_ended_at on a request without a period changes nothing and on
\* a request with a period sets the end and keeps the start; set_started_at
\* on a request with a period replaces the start and keeps the end, and
\* otherwise starts a period without an end; set_period sets both; none of
\* the three touches another field.
C24_PeriodFrame ==
    [][(req.ty = "GetClipsRequest" /\ req' # req) =>
        /\ (set_ended_at /\ is_none(req.period)) => req' = req
        /\ (set_ended_at /\ is_some(req.period)) =>
              /\ is_some(req'.period)
              /\ req'.period[1].start = req.period[1].start
              /\ is_some(req'.period[1].end)
        /\ (set_started_at /\ is_some(req.period)) =>
              /\ is_some(req'.period)
              /\ req'.period[1].end = req.period[1].end
        /\ (set_started_at /\ is_none(req.period)) =>
              /\ is_some(req'.period)
              /\ is_none(req'.period[1].end)
        /\ set_period => (is_some(req'.period) /\ is_some(req'.period[1].end))
        /\ (set_period \/ set_started_at \/ set_ended_at) =>
              [req' EXCEPT !.period = req.period] = req
        /\ req'.period # req.period => (set_period \/ set_started_at \/ set_ended_at)
        /\ is_some(req'.period) => req'.period[1].start \in Times]_vars

C24_Witness ==
    /\ req.ty = "GetClipsRequest"
    /\ req.period = Some([start |-> "t2", end |-> Some("t1")])
    /\ req.query_type.kind = "GameId"
    /\ pc = "idle"

----------------------------------------------------------------------------
MatchesSuccessShape == Delivered /\ Body.json /\ Response_deserialize(req.ty, Body.obj).ok
MatchesFailureShape == Delivered /\ Body.json /\ FailureStatus_deserialize(Body.obj).ok
StatusErrors == {"KnownErrorStatus", "UnkownErrorStatus"}

\* C26: the success shape is tried first: a delivered body that matches the
\* typed success payload is returned as Ok whether or not it also matches
\* {status, message}, and a call ends in a status error exactly when the body
\* matches {status, message} and does not match the success payload.
C26_SuccessShapeFirst ==
    (pc = "done" /\ Delivered) =>
        /\ MatchesSuccessShape => result.kind = "Ok"
        /\ (MatchesSuccessShape /\ MatchesFailureShape) =>
              (result.kind \notin StatusErrors /\ ~InSeq("from_status", trace))
        /\ result.kind \in StatusErrors <=> (MatchesFailureShape /\ ~MatchesSuccessShape)

C26_Witness ==
    /\ pc = "done"
    /\ req.ty = "GetClipsRequest"
    /\ MatchesSuccessShape
    /\ MatchesFailureShape
    /\ Body.obj["data"].t = "absent"
    /\ result.kind = "Ok"
    /\ result.payload.clips = <<>>

----------------------------------------------------------------------------
\* C27: for a GetClipsRequest with auth set and a clip-id selector of n ids,
\* ready() is Ok iff 1 <= n <= 100 and an empty selector is rejected with
\* MalformedRequest; add_clip_id appends one id to a clip-id selector and
\* otherwise starts a selector of one id; clear_clip_ids empties a clip-id
\* selector and leaves a broadcaster-id or game-id selector, which stays
\* ready, unchanged.
C27_ClipIdCount ==
    [][(req.ty = "GetClipsRequest" /\ req' # req) =>
        /\ (is_some(req'.auth) /\ req'.query_type.kind = "ClipId") =>
              LET n == Len(req'.query_type.val)
              IN  /\ (ready(req') = ReadyOk) <=> (1 <= n /\ n <= 100)
                  /\ n = 0 => ready(req').kind = "MalformedRequest"
        /\ (is_some(req'.auth) /\ req'.query_type.kind \in {"BroadCasterId", "GameId"}) =>
              ready(req') = ReadyOk
        /\ req'.query_type # req.query_type =>
            /\ (add_clip_id /\ req.query_type.kind = "ClipId") =>
                  /\ req'.query_type.kind = "ClipId"
                  /\ Len(req'.query_type.val) = Len(req.query_type.val) + 1
                  /\ IsPrefix(req.query_type.val, req'.query_type.val)
            /\ (add_clip_id /\ req.query_type.kind # "ClipId") =>
                  /\ req'.query_type.kind = "ClipId"
                  /\ Len(req'.query_type.val) = 1
            /\ (clear_clip_ids /\ req.query_type.kind = "ClipId") =>
                  req'.query_type = ClipId(<<>>)
            /\ (clear_clip_ids /\ req.query_type.kind # "ClipId") => req' = req]_vars

C27_Witness ==
    /\ req.ty = "GetClipsRequest"
    /\ is_some(req.auth)
    /\ req.query_type.kind = "ClipId"
    /\ Len(req.query_type.val) = 101
    /\ pc = "done"
    /\ result.kind = "MalformedRequest"

----------------------------------------------------------------------------
\* C28: the cursor of a scope iterator stays between 0 and Scope::max() = 26
\* and never decreases; what the iterator converts from a cursor value is an
\* existing variant whose discriminant is below the cursor; 26 is the number
\* of variants, every discriminant is below 26 and converts back to its
\* variant, and every discriminant is within the width of the bit array, so
\* contains() always finds a bit.
C28_CursorInRange ==
    [][/\ Scope_max = Cardinality(Scope)
       /\ Scope_max = Len(ScopeOrder)
       /\ \A s \in Scope :
            /\ as_usize(s) \in 0..(Scope_max - 1)
            /\ transmute(as_usize(s)) = s
            /\ is_some(BitArray_get(scope_set'.scopes, as_usize(s)))
       /\ \A i \in IterIds :
            /\ iters'[i].cursor \in 0..Scope_max
            /\ (iters[i].live /\ iters'[i].live) => iters'[i].cursor >= iters[i].cursor
            /\ ~iters'[i].spec =>
                  \A k \in 1..Len(iters'[i].out) :
                      /\ iters'[i].out[k] \in Scope
                      /\ as_usize(iters'[i].out[k]) < iters'[i].cursor]_vars

C28_Witness ==
    /\ iters[1].live
    /\ iters[1].cursor = 26
    /\ iters[1].out = <<"AnalyticsReadExtensions", "WhispersEdit">>
    /\ ~iters[1].ended

----------------------------------------------------------------------------
\* C29: every scope iterator terminates: a next() call either returns an item
\* and moves the cursor up, or returns None with the cursor at 26, so at most
\* 26 items are returned; an iterator whose next() keeps being called
\* returns None (unless it is dropped first); and after None every next()
\* returns None again and changes nothing.
C29_IterTerminates ==
    /\ \A i \in IterIds : iters[i].live ~> (iters[i].ended \/ ~iters[i].live)
    /\ [][\A i \in IterIds :
            Iterator_next(i) =>
                \/ /\ Len(iters'[i].out) = Len(iters[i].out) + 1
                   /\ iters'[i].cursor > iters[i].cursor
                \/ /\ iters'[i].ended
                   /\ iters'[i].out = iters[i].out
                   /\ iters'[i].cursor = Scope_max]_vars
    /\ [](\A i \in IterIds :
            /\ Len(iters[i].out) <= iters[i].cursor
            /\ iters[i].cursor <= Scope_max
            /\ iters[i].ended =>
                  /\ is_none(ScopeIter_next(iters[i].cursor, scope_set).item)
                  /\ ScopeIter_next(iters[i].cursor, scope_set).cursor = iters[i].cursor)

C29_Witness ==
    /\ iters[2].ended
    /\ iters[2].cursor = 26
    /\ iters[2].out = <<"bits:read", "clips:edit">>

----------------------------------------------------------------------------
\* C22: the token shared by the requests of several tasks is never changed by
\* a make_request call: at every step of every interleaving the token behind
\* the Arc, its scope set included, is what it was before the step and what
\* it was at the start, and every request built from it carries the same two
\* header values, Bearer <token> and the client id.
C22_TokenNeverMutated ==
    [][/\ token' = token
       /\ token = ClientAuthToken
       /\ Held(token'.scopes) = Held(token.scopes)
       /\ \A t \in TaskIds :
            tasks'[t].treq # NoRequest =>
                tasks'[t].treq.headers =
                    << <<"Authorization", <<"Bearer", ClientAuthToken.token>> >>,
                       <<"Client-Id", <<ClientAuthToken.client_id>> >> >>]_vars

C22_Witness ==
    /\ tasks # <<>>
    /\ tasks[1].pc = "done"
    /\ tasks[1].result.kind = "Ok"
    /\ tasks[2].pc = "sending"
    /\ tasks[2].treq.headers = tasks[1].treq.headers
    /\ tasks[2].treq.headers[1] = <<"Authorization", <<"Bearer", "tok1">> >>
    /\ token = ClientAuthToken

----------------------------------------------------------------------------
\* C25: in every interleaving of the calls of the tasks, what a call returns is
\* what the same request returns when it runs alone and the transport gives
\* the same answer; a step of one call changes nothing of another call, and no
\* call changes the fields of a request.
run_alone(r, tok, answer) ==
    LET m == make_request(as_ref(r, tok))
    IN  IF ~m.sent THEN m.ret
        ELSE IF ~answer[1].ok THEN ReqwestError("send")
        ELSE read_response(r.ty, answer[1].body).ret

C25_CallsIsolated ==
    [][\A t \in TaskIds :
        /\ tasks'[t].req = tasks[t].req
        /\ tasks'[t].pc = "done" =>
              /\ make_request(as_ref(tasks'[t].req, token')).sent => net'[t] # None
              /\ tasks'[t].result = run_alone(tasks'[t].req, token', net'[t])
        /\ tasks'[t].pc = "reading" =>
              /\ net'[t] # None
              /\ net'[t][1].ok
              /\ tasks'[t].resp = Some(net'[t][1].body)
        /\ tasks'[t] # tasks[t] => \A u \in TaskIds \ {t} : tasks'[u] = tasks[u]]_vars

C25_Witness ==
    /\ tasks # <<>>
    /\ tasks[1].req = tasks[2].req
    /\ tasks[1].pc = "done"
    /\ tasks[1].result.kind = "Ok"
    /\ tasks[2].pc = "reading"
    /\ net[2][1].body.obj["status"].n = 401
    /\ net[1] # net[2]

----------------------------------------------------------------------------
\* C30: client_auth on an Unauthorized client returns either Ok with a
\* ClientCredentials client whose token holds the access_token of the response
\* body, the client id given to the call and no scope, or Err with the error
\* and the client the call was made on; it returns Err whenever the send
\* failed, the body did not parse, or the body parsed as a {status, message}
\* failure, and then the caller holds no authorized client; in both results
\* the inner transport client is the one of the client the call was made on.
C30_ClientAuthResult ==
    [][auth_call # None =>
        LET c == auth_call[1]
            parsed == PossibleResponse_deserialize("ClientAuthRequest", c.resp[1])
        IN  /\ c.self.current.state = "Unauthorized"
            /\ c.pc = "done" =>
                  /\ c.result.client.common.client = c.self.common.client
                  /\ c.result.ok <=> (c.resp # None /\ parsed.variant = "Response")
                  /\ c.result.ok =>
                        /\ c.result.client.current.state = "ClientCredentials"
                        /\ c.result.client.current.token.token = c.resp[1].obj["access_token"].s
                        /\ c.result.client.current.token.client_id = c.id
                        /\ Held(c.result.client.current.token.scopes) = {}
                  /\ ~c.result.ok =>
                        /\ c.result.client = c.self
                        /\ c.resp = None => c.result.error = ReqwestError("send")
                        /\ (c.resp # None /\ parsed.variant = "Err") =>
                              c.result.error = ReqwestError("decode")
                        /\ (c.resp # None /\ parsed.variant = "Failure") =>
                              /\ c.result.error.kind = "FailureStatusNum"
                              /\ c.result.error.from.status = c.resp[1].obj["status"].n
                              /\ c.result.error.from.message = c.resp[1].obj["message"].s
                  /\ auth_call' = None =>
                        /\ client' = Some(c.result.client)
                        /\ ~c.result.ok => client'[1].current.state = "Unauthorized"]_vars

C30_Witness ==
    /\ auth_call # None
    /\ auth_call[1].pc = "done"
    /\ auth_call[1].result.ok
    /\ auth_call[1].id = "cid2"
    /\ auth_call[1].self.common.client = "rclient2"
    /\ auth_call[1].result.client.current.token = ClientAuthToken_new("tok2", "cid2")
    /\ auth_call[1].result.client.common.client = "rclient2"

====
